---- MODULE Spec2Model ----
(***************************************************************************)
(* The four metric scripts of script/metrics (cpu_all.py, cpu_self.py,     *)
(* backend_duration.py, network.py) as one state machine.  A run is one    *)
(* script applied to one CSV file; every statement group of the script is  *)
(* one action.  pandas frames are sequences of rows, pivot tables are      *)
(* records of an index, a column list and one row of cells per index       *)
(* entry.  float64 cells are exact rationals <<n, d>> with d > 0, NaN is   *)
(* <<0, 0>> and the infinities are <<1, 0>> and <<-1, 0>>; timestamps are  *)
(* whole seconds.                                                          *)
(***************************************************************************)
EXTENDS Integers, Sequences, FiniteSets, TLC

VARIABLES script, pc, df, frames, df_pivot, time_diff, rate, plotted

vars == <<script, pc, df, frames, df_pivot, time_diff, rate, plotted>>

(***************************************************************************)
(* Bounds of the explored inputs.                                          *)
(***************************************************************************)
\* number of one-second ticks of the regular part of an input file
NumTicks == 12
\* number of further rows that follow the regular part
MaxExtra == 2

(***************************************************************************)
(* float64 arithmetic on exact rationals.                                  *)
(***************************************************************************)
NaN == <<0, 0>>

Inf == <<1, 0>>

NegInf == <<-1, 0>>

IsNaN(x) == x[2] = 0 /\ x[1] = 0

IsInf(x) == x[2] = 0 /\ x[1] # 0

Abs(n) == IF n < 0 THEN -n ELSE n

RECURSIVE GCD(_, _)
GCD(a, b) == IF b = 0 THEN a ELSE GCD(b, a % b)

\* the rational n / d in lowest terms with a positive denominator (d # 0)
Norm(n, d) ==
    LET g == GCD(Abs(n), Abs(d))
        s == IF d < 0 THEN -1 ELSE 1
    IN  <<s * (n \div g), s * (d \div g)>>

Num(v) == <<v, 1>>

\* x - y; NaN when either side is NaN or both are the same infinity
FSub(x, y) ==
    IF IsNaN(x) \/ IsNaN(y) THEN NaN
    ELSE IF IsInf(x) THEN (IF x = y THEN NaN ELSE x)
    ELSE IF IsInf(y) THEN <<-y[1], 0>>
    ELSE Norm(x[1] * y[2] - y[1] * x[2], x[2] * y[2])

FAdd(x, y) ==
    IF IsNaN(x) \/ IsNaN(y) THEN NaN
    ELSE IF IsInf(x) THEN (IF IsInf(y) /\ x # y THEN NaN ELSE x)
    ELSE IF IsInf(y) THEN y
    ELSE Norm(x[1] * y[2] + y[1] * x[2], x[2] * y[2])

Sign(n) == IF n < 0 THEN -1 ELSE IF n > 0 THEN 1 ELSE 0

\* x / y as float64 divides: x / 0 is an infinity of x's sign, 0 / 0 is NaN
FDiv(x, y) ==
    IF IsNaN(x) \/ IsNaN(y) THEN NaN
    ELSE IF IsInf(x) THEN (IF IsInf(y) THEN NaN
                           ELSE <<x[1] * (IF y[1] < 0 THEN -1 ELSE 1), 0>>)
    ELSE IF IsInf(y) THEN Num(0)
    ELSE IF y[1] = 0 THEN (IF x[1] = 0 THEN NaN ELSE <<Sign(x[1]), 0>>)
    ELSE Norm(x[1] * y[2], x[2] * y[1])

FMul(x, y) ==
    IF IsNaN(x) \/ IsNaN(y) THEN NaN
    ELSE IF IsInf(x) \/ IsInf(y)
         THEN (IF x[1] = 0 \/ y[1] = 0 THEN NaN ELSE <<Sign(x[1]) * Sign(y[1]), 0>>)
    ELSE Norm(x[1] * y[1], x[2] * y[2])

(***************************************************************************)
(* Timestamps.  The time column of the file holds text; a text that is a   *)
(* clock reading parses to its second of the day, any other text is        *)
(* coerced to NaT.                                                         *)
(***************************************************************************)
NaT == -1

Stamps ==
    << "00:00:00", "00:00:01", "00:00:02", "00:00:03", "00:00:04", "00:00:05",
       "00:00:06", "00:00:07", "00:00:08", "00:00:09", "00:00:10", "00:00:11",
       "00:00:12", "00:00:13", "00:00:14", "00:00:15", "00:00:16", "00:00:17",
       "00:00:18", "00:00:19", "00:00:20", "00:00:21" >>

Stamp(t) == Stamps[t + 1]

\* pd.to_datetime(text, errors="coerce") of one cell
to_datetime(text) ==
    IF \E k \in 1..Len(Stamps) : Stamps[k] = text
    THEN (CHOOSE k \in 1..Len(Stamps) : Stamps[k] = text) - 1
    ELSE NaT

(***************************************************************************)
(* Scripts, metric families and labels.                                    *)
(***************************************************************************)
Scripts == {"cpu_all", "cpu_self", "backend_duration", "network"}

\* the metric names a script selects
Families(s) ==
    CASE s = "cpu_all" -> {"cpu_all"}
      [] s = "cpu_self" -> {"cpu_self"}
      [] s = "backend_duration" -> {"backend_duration"}
      [] s = "network" -> {"network_rx", "network_tx"}

\* cpu_all.py: valid_labels
valid_labels_cpu ==
    <<"user", "system", "idle", "iowait", "irq", "nice", "softirq", "steal">>

\* backend_duration.py: valid_labels
valid_labels_duration == <<"get", "put", "close">>

Range(s) == {s[i] : i \in 1..Len(s)}

\* the scripts that filter labels, and their lists
HasAllowList(s) == s \in {"cpu_all", "backend_duration"}

valid_labels(s) ==
    IF s = "cpu_all" THEN valid_labels_cpu ELSE valid_labels_duration

\* the scripts that test the filtered frame for emptiness
HasEmptyCheck(s) == s \in {"cpu_all", "backend_duration"}

\* the scripts that derive a rate, the window of the difference and the
\* unit scale applied to the quotient
IsCumulative(s) == s \in {"cpu_all", "cpu_self", "network"}

periods == 10

\* the scale left out
UnitScaleNone(s) == Num(1)

UnitScale(s) ==
    CASE s = "cpu_all" -> Num(100)
      [] s = "network" -> <<1, 1000000>>
      [] OTHER -> Num(1)

\* every label of the explored files in the order pandas sorts column names
LabelOrder ==
    <<"close", "eth0", "get", "go", "gocica", "guest", "idle", "iowait", "irq",
      "lo", "nice", "open", "put", "softirq", "steal", "system", "user">>

(***************************************************************************)
(* The input files.  A file is a regular series of ticks (absent, in       *)
(* ascending or in descending order of time) followed by up to MaxExtra    *)
(* arbitrary rows: rows of another metric, rows of other labels, rows      *)
(* whose time does not parse, rows that repeat a (time, label) pair of the *)
(* series, rows that arrive out of order and rows of a later tick.         *)
(***************************************************************************)
PrimaryLabel(s) ==
    CASE s = "cpu_all" -> "user"
      [] s = "cpu_self" -> "gocica"
      [] s = "backend_duration" -> "get"
      [] s = "network" -> "eth0"

LabelDomain(s) ==
    CASE s = "cpu_all" -> {"user", "system", "guest"}
      [] s = "cpu_self" -> {"gocica", "go"}
      [] s = "backend_duration" -> {"get", "put", "open"}
      [] s = "network" -> {"eth0", "lo"}

\* the value of the regular series at tick t: a counter that grows by one
\* unit a second, or a duration in nanoseconds
BaseValue(s, t) ==
    CASE s = "backend_duration" -> Num(500000000 * (1 + (t % 3)))
      [] s = "network" -> Num(2000000 * t)
      [] OTHER -> Num(t)

ExtraValue(s) ==
    CASE s = "backend_duration" -> Num(2000000000)
      [] s = "network" -> Num(50000000)
      [] OTHER -> Num(40)

ExtraTimes == {"n/a", Stamp(0), Stamp(1), Stamp(NumTicks)}

\* a row of a family of s with any of the labels and times, or a row of
\* another metric that carries the label and a time of the series
ExtraRows(s) ==
    [time : ExtraTimes, name : Families(s), label : LabelDomain(s),
     value : {ExtraValue(s)}]
    \cup {[time |-> Stamp(1), name |-> "mem_alloc", label |-> PrimaryLabel(s),
           value |-> ExtraValue(s)]}

SeqsUpTo(S, n) == UNION {[1..k -> S] : k \in 0..n}

FamilySeq(s) ==
    IF s = "network" THEN <<"network_rx", "network_tx">> ELSE <<s>>

\* one row per tick of ticks, family of s and label of labels
Series(s, ticks, labels) ==
    LET fams == FamilySeq(s)
        m == Len(fams) * Len(labels)
    IN  [k \in 1..(Len(ticks) * m) |->
            LET t == ticks[((k - 1) \div m) + 1]
                c == (k - 1) % m
            IN  [time |-> Stamp(t),
                 name |-> fams[(c \div Len(labels)) + 1],
                 label |-> labels[(c % Len(labels)) + 1],
                 value |-> BaseValue(s, t)]]

Ascending(n) == [i \in 1..n |-> i - 1]

Descending(n) == [i \in 1..n |-> n - i]

\* the regular series with the arbitrary rows after it
CommonFiles(s) ==
    {base \o extra :
        base \in {<<>>,
                  Series(s, Ascending(NumTicks), <<PrimaryLabel(s)>>),
                  Series(s, Descending(NumTicks), <<PrimaryLabel(s)>>)},
        extra \in SeqsUpTo(ExtraRows(s), MaxExtra)}

\* a file with every label of the canonical list at every tick, and the
\* file of label "user" with the values 0, 1, ..., 20 at the ticks 0..20
FullFile == Series("cpu_all", Ascending(NumTicks), valid_labels_cpu)

ScenarioFile == Series("cpu_all", Ascending(21), <<"user">>)

Files(s) ==
    IF s = "cpu_all"
    THEN CommonFiles(s) \cup {FullFile, ScenarioFile}
    ELSE CommonFiles(s)

(***************************************************************************)
(* Frames.                                                                 *)
(***************************************************************************)
\* pd.read_csv: the rows of the file under a RangeIndex
read_csv(file) ==
    [i \in 1..Len(file) |->
        [index |-> i - 1, time |-> file[i].time, name |-> file[i].name,
         label |-> file[i].label, value |-> file[i].value]]

\* df["time"] = pd.to_datetime(df["time"], errors="coerce")
ParseTime(frame) ==
    [i \in 1..Len(frame) |-> [frame[i] EXCEPT !.time = to_datetime(@)]]

\* frame[col] == v and frame[col].isin(vs): one boolean per row
EqMask(frame, col, v) == [i \in 1..Len(frame) |-> frame[i][col] = v]

IsinMask(frame, col, vs) == [i \in 1..Len(frame) |-> frame[i][col] \in vs]

\* frame[mask]: the rows whose mask entry is true, in frame order
BoolIndex(frame, mask) ==
    LET kept == SelectSeq([i \in 1..Len(frame) |-> i], LAMBDA i : mask[i])
    IN  [k \in 1..Len(kept) |-> frame[kept[k]]]

\* FilterFamily without the label test
FilterFamilyByNameOnly(s, f, frame) == BoolIndex(frame, EqMask(frame, "name", f))

\* the frame a script keeps for family f
FilterFamily(s, f, frame) ==
    IF s = "network"
    THEN LET df_network ==
                 BoolIndex(frame, IsinMask(frame, "name", Families(s)))
         IN  BoolIndex(df_network, EqMask(df_network, "name", f))
    ELSE LET byName == BoolIndex(frame, EqMask(frame, "name", f))
         IN  IF HasAllowList(s)
             THEN BoolIndex(byName,
                            IsinMask(byName, "label", Range(valid_labels(s))))
             ELSE byName

\* df_duration["value"] = df_duration["value"] / 1_000_000_000
ToSeconds(frame) ==
    [i \in 1..Len(frame) |->
        [frame[i] EXCEPT !.value = FDiv(@, Num(1000000000))]]

\* frame.set_index("time", inplace=True): the time column becomes the index
set_index(frame) ==
    [i \in 1..Len(frame) |->
        [index |-> frame[i].time, name |-> frame[i].name,
         label |-> frame[i].label, value |-> frame[i].value]]

\* the column a script's pivot_table groups its rows by
TimeKey(s) == IF HasEmptyCheck(s) THEN "index" ELSE "time"

(***************************************************************************)
(* Tables.                                                                 *)
(***************************************************************************)
EmptyTable == [index |-> <<>>, columns |-> <<>>, data |-> <<>>]

Min(S) == CHOOSE x \in S : \A y \in S : x <= y

Max(S) == CHOOSE x \in S : \A y \in S : x >= y

\* the group keys in the order groupby(sort=True) yields them
RECURSIVE SortKeys(_)
SortKeys(S) == IF S = {} THEN <<>> ELSE <<Min(S)>> \o SortKeys(S \ {Min(S)})

\* the column names in the order pivot_table's sort_index(axis=1) yields
SortLabels(S) == SelectSeq(LabelOrder, LAMBDA l : l \in S)

RECURSIVE SumAt(_, _)
SumAt(frame, g) ==
    IF g = {} THEN Num(0)
    ELSE LET i == Min(g) IN FAdd(frame[i].value, SumAt(frame, g \ {i}))

\* aggfunc over the rows g (positions of frame) of one (time, label) group
Aggregate(aggfunc, frame, g) ==
    IF aggfunc = "last" THEN frame[Max(g)].value
    ELSE FDiv(SumAt(frame, g), Num(Cardinality(g)))

aggfunc(s) == IF HasEmptyCheck(s) THEN "mean" ELSE "last"

\* pivot_table whose groups stay in the order of their first row
pivot_table_unsorted(frame, key, agg) ==
    LET kept == {i \in 1..Len(frame) : frame[i][key] # NaT}
        firsts == SelectSeq([i \in 1..Len(frame) |-> i],
                            LAMBDA i : /\ i \in kept
                                       /\ \A j \in kept :
                                              j < i => frame[j][key] # frame[i][key])
        idx == [r \in 1..Len(firsts) |-> frame[firsts[r]][key]]
        labels == {frame[i].label : i \in kept}
        group(t, l) ==
            {i \in kept : frame[i][key] = t /\ frame[i].label = l}
        cell(t, l) ==
            IF group(t, l) = {} THEN NaN ELSE Aggregate(agg, frame, group(t, l))
    IN  [index |-> idx,
         columns |-> SortLabels(labels),
         data |-> [r \in 1..Len(idx) |-> [l \in labels |-> cell(idx[r], l)]]]

\* frame.pivot_table(index=key, columns="label", values="value",
\* aggfunc=agg): rows with a NaT key belong to no group
pivot_table(frame, key, agg) ==
    LET kept == {i \in 1..Len(frame) : frame[i][key] # NaT}
        idx == SortKeys({frame[i][key] : i \in kept})
        labels == {frame[i].label : i \in kept}
        group(t, l) ==
            {i \in kept : frame[i][key] = t /\ frame[i].label = l}
        cell(t, l) ==
            IF group(t, l) = {} THEN NaN ELSE Aggregate(agg, frame, group(t, l))
    IN  [index |-> idx,
         columns |-> SortLabels(labels),
         data |-> [r \in 1..Len(idx) |-> [l \in labels |-> cell(idx[r], l)]]]

\* ffill left out
ffill_none(table) == table

\* table.ffill(): a NaN cell takes the value of the row above it
ffill(table) ==
    LET filled[r \in 1..Len(table.data)] ==
            [l \in DOMAIN table.data[r] |->
                IF IsNaN(table.data[r][l]) /\ r > 1
                THEN filled[r - 1][l]
                ELSE table.data[r][l]]
    IN  [table EXCEPT !.data = [r \in 1..Len(table.data) |-> filled[r]]]

\* the positions 1..n of index, ordered by index value, ties in position order
RECURSIVE SortPositions(_, _)
SortPositions(index, todo) ==
    IF todo = {} THEN <<>>
    ELSE LET least == Min({index[i] : i \in todo})
             p == Min({i \in todo : index[i] = least})
         IN  <<p>> \o SortPositions(index, todo \ {p})

\* table.sort_index()
sort_index(table) ==
    LET order == SortPositions(table.index, DOMAIN table.index)
    IN  [table EXCEPT
            !.index = [r \in 1..Len(order) |-> table.index[order[r]]],
            !.data = [r \in 1..Len(order) |-> table.data[order[r]]]]

(***************************************************************************)
(* Rate derivation.                                                        *)
(***************************************************************************)
\* table.diff(periods=n): each cell minus the cell n rows above it
diff(table, n) ==
    [table EXCEPT !.data =
        [r \in 1..Len(table.data) |->
            [l \in DOMAIN table.data[r] |->
                IF r <= n THEN NaN
                ELSE FSub(table.data[r][l], table.data[r - n][l])]]]

\* table.index.to_series().diff(periods=n).dt.total_seconds()
index_diff(table, n) ==
    [r \in 1..Len(table.index) |->
        IF r <= n THEN NaN ELSE Num(table.index[r] - table.index[r - n])]

\* table.div(series, axis=0): every cell of row r divided by series[r]
div(table, series) ==
    [table EXCEPT !.data =
        [r \in 1..Len(table.data) |->
            [l \in DOMAIN table.data[r] |-> FDiv(table.data[r][l], series[r])]]]

\* table * k
scale(table, k) ==
    [table EXCEPT !.data =
        [r \in 1..Len(table.data) |->
            [l \in DOMAIN table.data[r] |-> FMul(table.data[r][l], k)]]]

\* dropna(how="all"): only the rows whose every cell is NaN are removed
dropna_all(table) ==
    LET keep == SelectSeq([r \in 1..Len(table.data) |-> r],
                          LAMBDA r : \E l \in DOMAIN table.data[r] :
                                        ~IsNaN(table.data[r][l]))
    IN  [table EXCEPT
            !.index = [k \in 1..Len(keep) |-> table.index[keep[k]]],
            !.data = [k \in 1..Len(keep) |-> table.data[keep[k]]]]

\* table.dropna(): the rows without a NaN cell, under their index labels
dropna(table) ==
    LET keep == SelectSeq([r \in 1..Len(table.data) |-> r],
                          LAMBDA r : \A l \in DOMAIN table.data[r] :
                                        ~IsNaN(table.data[r][l]))
    IN  [table EXCEPT
            !.index = [k \in 1..Len(keep) |-> table.index[keep[k]]],
            !.data = [k \in 1..Len(keep) |-> table.data[keep[k]]]]

\* the rate table of an aligned table
RateOf(s, table) ==
    dropna(scale(div(diff(table, periods), index_diff(table, periods)),
                 UnitScale(s)))

\* table[labels] raises KeyError when a label is not a column of table
HasColumns(table, labels) == Range(labels) \subseteq Range(table.columns)

\* table[labels]: the columns of labels, in the order of labels
SelectColumns(table, labels) ==
    [table EXCEPT
        !.columns = labels,
        !.data = [r \in 1..Len(table.data) |->
                     [l \in Range(labels) |-> table.data[r][l]]]]

(***************************************************************************)
(* The scripts.                                                            *)
(***************************************************************************)
PerFamily(v) == [f \in Families(script) |-> v]

Init ==
    /\ script \in Scripts
    /\ \E file \in Files(script) : df = read_csv(file)
    /\ pc = "read"
    /\ frames = PerFamily(<<>>)
    /\ df_pivot = PerFamily(EmptyTable)
    /\ time_diff = PerFamily(<<>>)
    /\ rate = PerFamily(EmptyTable)
    /\ plotted = PerFamily(EmptyTable)

\* df["time"] = pd.to_datetime(df["time"], errors="coerce")
ToDatetime ==
    /\ pc = "read"
    /\ df' = ParseTime(df)
    /\ pc' = "parsed"
    /\ UNCHANGED <<script, frames, df_pivot, time_diff, rate, plotted>>

\* the selection of the rows of each family
Filter ==
    /\ pc = "parsed"
    /\ frames' = [f \in Families(script) |-> FilterFamily(script, f, df)]
    /\ pc' = "filtered"
    /\ UNCHANGED <<script, df, df_pivot, time_diff, rate, plotted>>

\* backend_duration.py: nanoseconds to seconds
ConvertValue ==
    /\ pc = "filtered"
    /\ script = "backend_duration"
    /\ frames' = [f \in Families(script) |-> ToSeconds(frames[f])]
    /\ pc' = "converted"
    /\ UNCHANGED <<script, df, df_pivot, time_diff, rate, plotted>>

\* cpu_all.py, backend_duration.py: time becomes the index of the frame
SetIndex ==
    /\ \/ pc = "filtered" /\ script = "cpu_all"
       \/ pc = "converted" /\ script = "backend_duration"
    /\ frames' = [f \in Families(script) |-> set_index(frames[f])]
    /\ pc' = "indexed"
    /\ UNCHANGED <<script, df, df_pivot, time_diff, rate, plotted>>

\* if frame.empty: print("Error: Input DataFrame is empty"); sys.exit(1)
ExitEmpty ==
    /\ pc = "indexed"
    /\ \E f \in Families(script) : Len(frames[f]) = 0
    /\ pc' = "exit1"
    /\ UNCHANGED <<script, df, frames, df_pivot, time_diff, rate, plotted>>

\* frame.pivot_table(...).ffill()
Pivot ==
    /\ \/ pc = "indexed" /\ \A f \in Families(script) : Len(frames[f]) # 0
       \/ pc = "filtered" /\ ~HasEmptyCheck(script)
    /\ df_pivot' = [f \in Families(script) |->
                       ffill(pivot_table(frames[f], TimeKey(script),
                                         aggfunc(script)))]
    /\ pc' = "pivoted"
    /\ UNCHANGED <<script, df, frames, time_diff, rate, plotted>>

\* cpu_self.py, network.py: table = table.sort_index()
SortIndex ==
    /\ pc = "pivoted"
    /\ script \in {"cpu_self", "network"}
    /\ df_pivot' = [f \in Families(script) |-> sort_index(df_pivot[f])]
    /\ pc' = "sorted"
    /\ UNCHANGED <<script, df, frames, time_diff, rate, plotted>>

\* diff(periods=10) of the table and of its index, the quotient, the unit
\* scale and dropna
DeriveRate ==
    /\ \/ pc = "pivoted" /\ script = "cpu_all"
       \/ pc = "sorted"
    /\ time_diff' = [f \in Families(script) |-> index_diff(df_pivot[f], periods)]
    /\ rate' = [f \in Families(script) |-> RateOf(script, df_pivot[f])]
    /\ pc' = "rated"
    /\ UNCHANGED <<script, df, frames, df_pivot, plotted>>

\* cpu_all.py: rate[valid_labels], which raises KeyError for a label that is
\* no column
Reorder ==
    /\ pc = "rated"
    /\ script = "cpu_all"
    /\ IF HasColumns(rate["cpu_all"], valid_labels_cpu)
       THEN /\ plotted' = [f \in Families(script) |->
                              SelectColumns(rate[f], valid_labels_cpu)]
            /\ pc' = "reordered"
       ELSE /\ pc' = "KeyError"
            /\ UNCHANGED plotted
    /\ UNCHANGED <<script, df, frames, df_pivot, time_diff, rate>>

\* the table handed to .plot()
Plot ==
    /\ \/ pc = "reordered"
       \/ pc = "rated" /\ script \in {"cpu_self", "network"}
       \/ pc = "pivoted" /\ script = "backend_duration"
    /\ plotted' = CASE script = "cpu_all" -> plotted
                    [] script = "backend_duration" -> df_pivot
                    [] OTHER -> rate
    /\ pc' = "plot"
    /\ UNCHANGED <<script, df, frames, df_pivot, time_diff, rate>>

Next ==
    \/ ToDatetime
    \/ Filter
    \/ ConvertValue
    \/ SetIndex
    \/ ExitEmpty
    \/ Pivot
    \/ SortIndex
    \/ DeriveRate
    \/ Reorder
    \/ Plot

Spec == Init /\ [][Next]_vars

(***************************************************************************)
(* Vocabulary of the properties.                                           *)
(***************************************************************************)
\* the timestamp of a frame row, before and after set_index
TimeOf(r) == IF "time" \in DOMAIN r THEN r.time ELSE r.index

\* the frames hold the filtered rows
AfterFilter == pc \notin {"read", "parsed"}

\* df_pivot holds the aligned tables just built (no later step changes them)
Aligned == pc \in {"pivoted", "sorted"}

\* rate holds the rate tables just derived (no later step changes them)
Rated == pc = "rated"

\* the positions of the filtered rows of family f that carry a timestamp,
\* and those of timestamp t and label l
Samples(f) == {i \in 1..Len(frames[f]) : TimeOf(frames[f][i]) # NaT}

SamplesAt(f, t, l) ==
    {i \in Samples(f) : TimeOf(frames[f][i]) = t /\ frames[f][i].label = l}

SampleTimes(f) == {TimeOf(frames[f][i]) : i \in Samples(f)}

SampleLabels(f) == {frames[f][i].label : i \in Samples(f)}

\* the filtered rows of some family arrive out of time order, and some
\* timestamp occurs on two of them
OutOfOrder(f) ==
    \E i, j \in Samples(f) :
        i < j /\ TimeOf(frames[f][i]) > TimeOf(frames[f][j])

DuplicateTime(f) ==
    \E i, j \in Samples(f) :
        i < j /\ TimeOf(frames[f][i]) = TimeOf(frames[f][j])

(***************************************************************************)
(* C1: for every family, when no sample survives the filter the run ends   *)
(* in the EmptyInput outcome (message, exit code 1) and does not go on to  *)
(* align, derive or plot a table.  Stated: a run that has built its pivot  *)
(* table has at least one filtered row in every family.                    *)
(***************************************************************************)
C1_EmptyFilterEndsInEmptyInput ==
    pc \in {"pivoted", "sorted", "rated", "reordered", "KeyError", "plot"} => \A f \in Families(script) : Len(frames[f]) > 0

(***************************************************************************)
(* C2 as claimed: for every family, cpu_self and network_rx/network_tx     *)
(* included, every sample that passes the filter carries the family's name *)
(* and a label of an explicit allow-list.  The allow-lists of the scripts  *)
(* are valid_labels of cpu_all.py and of backend_duration.py.              *)
(***************************************************************************)
C2_EveryFamilyFiltersLabels ==
    AfterFilter =>
        \A f \in Families(script) : \A i \in 1..Len(frames[f]) :
            /\ frames[f][i].name = f
            /\ frames[f][i].label \in
                   Range(valid_labels_cpu) \cup Range(valid_labels_duration)

(***************************************************************************)
(* C2 as amended: right after the filter, the frame of a family holds      *)
(* exactly the rows of the file whose name is the family's and, in cpu_all *)
(* and backend_duration only, whose label is in valid_labels; the rows are *)
(* unchanged and in file order.  cpu_self, network_rx and network_tx are   *)
(* selected by name alone: every label passes.                             *)
(***************************************************************************)
Selected(f) ==
    {i \in 1..Len(df) :
        /\ df[i].name = f
        /\ HasAllowList(script) => df[i].label \in Range(valid_labels(script))}

C2_FilterSelectsExactly ==
    pc = "filtered" =>
        \A f \in Families(script) :
            /\ \A k \in 1..Len(frames[f]) : frames[f][k] \in Range(df)
            /\ \A k \in 1..(Len(frames[f]) - 1) :
                   frames[f][k].index < frames[f][k + 1].index
            /\ {frames[f][k].index + 1 : k \in 1..Len(frames[f])} = Selected(f)

\* the filter of cpu_all has dropped a row of another metric and a row whose
\* label is outside valid_labels, and has kept the other rows
C2_Witness ==
    /\ pc = "filtered"
    /\ script = "cpu_all"
    /\ \E i \in 1..Len(df) : df[i].name = "cpu_all" /\ df[i].label = "guest"
    /\ \E i \in 1..Len(df) : df[i].name # "cpu_all"
    /\ Len(frames["cpu_all"]) > 0
    /\ Len(frames["cpu_all"]) = Len(df) - 2

(***************************************************************************)
(* C3: for any input order, duplicate timestamps included, the aligned     *)
(* table has its rows in strictly increasing timestamp order, one row for  *)
(* each distinct timestamp of the filtered samples (so as many rows as     *)
(* distinct timestamps), and its columns are the labels of the filtered    *)
(* samples.  A sample is a filtered row whose time parsed.                 *)
(***************************************************************************)
C3_AlignedRowsAscendingDistinct ==
    Aligned =>
        \A f \in Families(script) :
            LET t == df_pivot[f] IN
            /\ \A r \in 1..(Len(t.index) - 1) : t.index[r] < t.index[r + 1]
            /\ Range(t.index) = SampleTimes(f)
            /\ Len(t.index) = Cardinality(SampleTimes(f))
            /\ Len(t.data) = Len(t.index)
            /\ Range(t.columns) = SampleLabels(f)
            /\ Len(t.columns) = Cardinality(SampleLabels(f))
            /\ \A r \in 1..Len(t.data) : DOMAIN t.data[r] = SampleLabels(f)

\* an aligned table built from samples that arrive out of order and repeat
\* a timestamp
C3_Witness ==
    /\ Aligned
    /\ \E f \in Families(script) :
           /\ OutOfOrder(f)
           /\ DuplicateTime(f)
           /\ Len(df_pivot[f].index) > periods

(***************************************************************************)
(* C4: forward fill.  Every cell of the aligned table equals the reduced   *)
(* value of the most recent row at or before it, in ascending timestamp    *)
(* order, at which its label was observed; after a label's first           *)
(* observation no cell of it is absent, before it every cell is absent.    *)
(***************************************************************************)
Observed(f, t, l) == SamplesAt(f, t, l) # {}

Reduced(f, t, l) == Aggregate(aggfunc(script), frames[f], SamplesAt(f, t, l))

C4_ForwardFill ==
    Aligned =>
        \A f \in Families(script) :
            LET t == df_pivot[f] IN
            \A l \in Range(t.columns) :
                LET obs == {q \in 1..Len(t.index) : Observed(f, t.index[q], l)}
                IN  \A r \in 1..Len(t.data) :
                        LET seen == {q \in obs : t.index[q] <= t.index[r]}
                        IN  IF seen = {}
                            THEN IsNaN(t.data[r][l])
                            ELSE /\ ~IsNaN(t.data[r][l])
                                 /\ LET q == CHOOSE q \in seen : \A p \in seen :
                                                 t.index[p] <= t.index[q]
                                    IN  t.data[r][l] = Reduced(f, t.index[q], l)

\* a column that is absent in the first row, observed in a later row and
\* carried into a row without an observation of it
C4_Witness ==
    /\ Aligned
    /\ \E f \in Families(script) :
           LET t == df_pivot[f] IN
           \E l \in Range(t.columns) : \E r \in 2..Len(t.data) :
               /\ IsNaN(t.data[1][l])
               /\ ~Observed(f, t.index[r], l)
               /\ ~IsNaN(t.data[r][l])

(***************************************************************************)
(* C5 as claimed: the rate table has the columns of the aligned table and  *)
(* exactly its rows i >= windowSize (only the first windowSize rows are    *)
(* removed), also when a label is first observed after the first           *)
(* timestamp.                                                              *)
(***************************************************************************)
C5_RateKeepsEveryRowPastWindow ==
    Rated =>
        \A f \in Families(script) :
            LET t == df_pivot[f]
                n == Len(t.index)
            IN  /\ rate[f].columns = t.columns
                /\ Len(rate[f].index) = (IF n > periods THEN n - periods ELSE 0)
                /\ \A k \in 1..Len(rate[f].index) :
                       rate[f].index[k] = t.index[k + periods]

(***************************************************************************)
(* C5 as amended: the rate table has the columns of the aligned table and  *)
(* exactly its rows i >= windowSize in which every column has a value at   *)
(* row i - windowSize (a label first observed after the first timestamp    *)
(* removes the rows whose window starts before its first observation as    *)
(* well); each value is (value[i] - value[i-w]) / (seconds[i] -            *)
(* seconds[i-w]) times the unit scale of the family.                       *)
(***************************************************************************)
C5_RateRowsAndValues ==
    Rated =>
        \A f \in Families(script) :
            LET t == df_pivot[f]
                rt == rate[f]
                rows == SelectSeq([r \in 1..Len(t.index) |-> r],
                                  LAMBDA r :
                                      /\ r > periods
                                      /\ \A l \in Range(t.columns) :
                                             ~IsNaN(t.data[r - periods][l]))
            IN  /\ rt.columns = t.columns
                /\ Len(rt.index) = Len(rows)
                /\ Len(rt.data) = Len(rows)
                /\ \A k \in 1..Len(rows) :
                       LET i == rows[k] IN
                       /\ rt.index[k] = t.index[i]
                       /\ DOMAIN rt.data[k] = Range(t.columns)
                       /\ \A l \in Range(t.columns) :
                              rt.data[k][l] =
                                  FMul(FDiv(FSub(t.data[i][l],
                                                 t.data[i - periods][l]),
                                            Num(t.index[i] - t.index[i - periods])),
                                       UnitScale(script))

\* a rate table with rows, derived from an aligned table one of whose
\* columns is absent in the first row
C5_Witness ==
    /\ Rated
    /\ \E f \in Families(script) :
           /\ Len(rate[f].index) > 0
           /\ \E l \in Range(df_pivot[f].columns) : IsNaN(df_pivot[f].data[1][l])

(***************************************************************************)
(* C6: no row of a rate table was computed from a window whose elapsed     *)
(* time is zero or negative, and no rate cell is infinite.                 *)
(***************************************************************************)
C6_NoDegenerateWindow ==
    Rated =>
        \A f \in Families(script) :
            LET t == df_pivot[f]
                rt == rate[f]
            IN  \A k \in 1..Len(rt.index) :
                    /\ \A r \in 1..Len(t.index) :
                           t.index[r] = rt.index[k] =>
                               /\ r > periods
                               /\ ~IsNaN(time_diff[f][r])
                               /\ time_diff[f][r][1] > 0
                               /\ t.index[r] - t.index[r - periods] > 0
                    /\ \A l \in DOMAIN rt.data[k] : ~IsInf(rt.data[k][l])

\* a rate table with rows, derived from samples that arrive out of order
\* and repeat a timestamp
C6_Witness ==
    /\ Rated
    /\ \E f \in Families(script) :
           /\ OutOfOrder(f)
           /\ DuplicateTime(f)
           /\ Len(rate[f].index) > 0

(***************************************************************************)
(* C7: in every cumulative family (cpu_all, cpu_self, network_rx,          *)
(* network_tx) the aligned cell of a (timestamp, label) pair that several  *)
(* samples share is the value of the last of them in input order.          *)
(***************************************************************************)
C7_DuplicatesLastWriteWins ==
    (Aligned /\ IsCumulative(script)) =>
        \A f \in Families(script) :
            LET t == df_pivot[f] IN
            \A r \in 1..Len(t.index) : \A l \in Range(t.columns) :
                Observed(f, t.index[r], l) =>
                    t.data[r][l] =
                        frames[f][Max(SamplesAt(f, t.index[r], l))].value

(***************************************************************************)
(* C8: reordering the cpu_all rate table to the canonical label order is a *)
(* stable permutation of its columns for every non-empty filtered input:   *)
(* the same column set, in canonical order, every value unchanged.         *)
(***************************************************************************)
C8_ReorderIsStablePermutation ==
    (script = "cpu_all" /\ pc \in {"reordered", "KeyError"}) =>
        LET rt == rate["cpu_all"]
            out == plotted["cpu_all"]
        IN  /\ pc = "reordered"
            /\ Range(out.columns) = Range(rt.columns)
            /\ out.columns =
                   SelectSeq(valid_labels_cpu, LAMBDA l : l \in Range(rt.columns))
            /\ out.index = rt.index
            /\ \A k \in 1..Len(rt.data) : \A l \in Range(rt.columns) :
                   out.data[k][l] = rt.data[k][l]

(***************************************************************************)
(* C9: the file of label "user" with the values 0, 1, ..., 20 at the       *)
(* one-second ticks 0..20.                                                 *)
(***************************************************************************)
Scenario ==
    /\ script = "cpu_all"
    /\ pc # "read"
    /\ df = ParseTime(read_csv(ScenarioFile))

ScenarioRates(rows) ==
    (Scenario /\ Rated) =>
        LET rt == rate["cpu_all"] IN
        /\ rt.columns = <<"user">>
        /\ Len(rt.index) = rows
        /\ rt.index[1] = periods
        /\ \A k \in 1..Len(rt.index) :
               /\ rt.data[k]["user"] = Num(100)
               /\ FDiv(rt.data[k]["user"], UnitScale("cpu_all")) = Num(1)

\* C9 as claimed: the first rate row is at tick 10, every rate is 1.0 (100
\* after the scale) and the rate table has exactly 10 rows
C9_ScenarioTenRows == ScenarioRates(10)

\* C9 as amended: the first rate row is at tick 10, every rate is 1.0 (100
\* after the scale) and the rate table has exactly 11 rows, the ticks 10..20
C9_ScenarioElevenRows ==
    /\ ScenarioRates(11)
    /\ (Scenario /\ Rated) =>
           \A k \in 1..Len(rate["cpu_all"].index) :
               rate["cpu_all"].index[k] = periods + k - 1

C9_Witness == Scenario /\ Rated /\ Len(rate["cpu_all"].index) > 0

(***************************************************************************)
(* C10: a row whose time does not parse never counts in the emptiness test *)
(* that decides EmptyInput (a run that passed the test has a filtered row  *)
(* with a timestamp in every family) and never makes a row of a table.     *)
(***************************************************************************)
C10_UnparsedRowsNeverCount ==
    /\ (HasEmptyCheck(script) /\ Aligned) =>
           \A f \in Families(script) : Samples(f) # {}
    /\ Aligned =>
           \A f \in Families(script) : NaT \notin Range(df_pivot[f].index)

====
